---- MODULE Spec2Model ----
(***************************************************************************)
(* Model of the lead-intake chatbot service (src/main.py): the JSON        *)
(* salvage parser, the structured extractor, the contact detector, the     *)
(* lead lifecycle inside the /chat handler, the persistence call, and the  *)
(* browser widget that calls /chat (the script served by /chatbot.js).     *)
(*                                                                         *)
(* Texts are sequences of lexical tokens.  Every token stands for a fixed  *)
(* piece of text, so a token sequence is a string of the program:          *)
(*   " "    one whitespace character                                       *)
(*   "~~~"  a code-fence marker (three backquote characters)              *)
(*   "json" the language tag                                               *)
(*   "{" "}" "[" "]" ","   JSON punctuation                                *)
(*   "1"    the digit 1 (a run of them is one JSON number)                 *)
(*   "x"    one character of prose                                         *)
(*   "F" "P" "O"  comma-separated lists of "key":"value" members          *)
(*   "dq"   one double-quote character                                     *)
(*   "S:"   the key "ai_summary" and the colon after it                    *)
(* A JSON string is what stands between two double-quote tokens.           *)
(***************************************************************************)
EXTENDS Integers, Sequences, FiniteSets, TLC

(***************************************************************************)
(* Bounds of the model.                                                    *)
(***************************************************************************)
\* longest backend text enumerated for the salvage parser
MaxTextLen == 4
\* /chat requests received in one behaviour
MaxRequests == 2
\* user turns typed into the widget in one behaviour
MaxTurns == 3
\* longest message content enumerated for the contact detector
MaxMessageLen == 7
\* longest content enumerated inside a fenced block
MaxContentLen == 6
\* longest prose enumerated before and after a JSON object
MaxProseLen == 2

(***************************************************************************)
(* Tokens.                                                                 *)
(***************************************************************************)
WS == " "
FENCE == "~~~"
TAG == "json"
QUOTE == "dq"
KEY == "S:"
MemberTokens == {"F", "P", "O"}
Alphabet == {WS, FENCE, TAG, "{", "}", "[", "]", ",", "1", "x", "P", QUOTE, KEY}

\* the twelve fields the extraction prompt asks for
ExtractedLeadFields ==
    {"name", "email", "phone", "intent", "service_interest", "budget_range",
     "timeline", "urgency_level", "lead_score", "lead_temperature",
     "ai_summary", "suggested_action"}

\* the keys chat() writes into the payload itself
ReservedKeys == {"created_at", "lead_id", "source", "conversation_log"}

AllKeys == ExtractedLeadFields \cup ReservedKeys

\* marks a key a dict does not hold
Absent == "<absent>"

\* a dict, as a total map over AllKeys
EmptyDict == [k \in AllKeys |-> Absent]

Keys(d) == {k \in AllKeys : d[k] # Absent}

\* {**a, **b}: the keys of b win
Merge(a, b) == [k \in AllKeys |-> IF b[k] # Absent THEN b[k] ELSE a[k]]

\* the members each member token spells out
MemberFields(tok) ==
    CASE tok = "F" -> [k \in AllKeys |-> IF k \in ExtractedLeadFields THEN "model" ELSE Absent]
      [] tok = "P" -> [k \in AllKeys |-> IF k = "intent" THEN "support" ELSE Absent]
      [] tok = "O" -> [k \in AllKeys |-> IF k \in ReservedKeys THEN "model-" \o k ELSE Absent]

(***************************************************************************)
(* JSON values: what json.loads returns.                                   *)
(***************************************************************************)
NoValue == [t |-> "none", fields |-> EmptyDict, items |-> <<>>, text |-> ""]
Num == [t |-> "num", fields |-> EmptyDict, items |-> <<>>, text |-> ""]
Obj(d) == [t |-> "obj", fields |-> d, items |-> <<>>, text |-> ""]
Arr(xs) == [t |-> "arr", fields |-> EmptyDict, items |-> xs, text |-> ""]

\* the characters the tokens of s stand for, as one string
RECURSIVE Join(_)
Join(s) == IF Len(s) = 0 THEN "" ELSE Head(s) \o Join(Tail(s))

\* a JSON string, given the tokens between its quotes
Str(c) == [t |-> "str", fields |-> EmptyDict, items |-> <<>>, text |-> Join(c)]

\* the value of a member as a dict holds it; a value that is not a string
\* is held by its kind
Shown(v) == IF v.t = "str" THEN v.text ELSE "<" \o v.t \o ">"

\* the member the key token and the value after it spell out
KeyField(v) == [k \in AllKeys |-> IF k = "ai_summary" THEN Shown(v) ELSE Absent]

ParseFail == [ok |-> FALSE, val |-> NoValue, pos |-> 0]
ParseOk(v, p) == [ok |-> TRUE, val |-> v, pos |-> p]

RECURSIVE SkipWs(_, _)
SkipWs(s, i) == IF i <= Len(s) /\ s[i] = WS THEN SkipWs(s, i + 1) ELSE i

RECURSIVE SkipDigits(_, _)
SkipDigits(s, i) == IF i <= Len(s) /\ s[i] = "1" THEN SkipDigits(s, i + 1) ELSE i

\* the closing quote of the string opened just before s[i]; 0 if none
RECURSIVE ClosingQuote(_, _)
ClosingQuote(s, i) ==
    IF i > Len(s) THEN 0
    ELSE IF s[i] = QUOTE THEN i
    ELSE ClosingQuote(s, i + 1)

RECURSIVE ParseValue(_, _)
RECURSIVE ParseMembers(_, _, _)
RECURSIVE ParseMoreMembers(_, _, _)
RECURSIVE ParseItems(_, _, _)

\* one JSON value starting at s[i]
ParseValue(s, i) ==
    IF i > Len(s) THEN ParseFail
    ELSE CASE s[i] = "1" -> ParseOk(Num, SkipDigits(s, i))
           [] s[i] = QUOTE ->
                LET j == ClosingQuote(s, i + 1)
                IN  IF j = 0 THEN ParseFail
                    ELSE ParseOk(Str(SubSeq(s, i + 1, j - 1)), j + 1)
           [] s[i] = "{" ->
                LET j == SkipWs(s, i + 1)
                IN  IF j <= Len(s) /\ s[j] = "}"
                    THEN ParseOk(Obj(EmptyDict), j + 1)
                    ELSE ParseMembers(s, j, EmptyDict)
           [] s[i] = "[" ->
                LET j == SkipWs(s, i + 1)
                IN  IF j <= Len(s) /\ s[j] = "]"
                    THEN ParseOk(Arr(<<>>), j + 1)
                    ELSE ParseItems(s, j, <<>>)
           [] OTHER -> ParseFail

\* the members of an object, the next one expected at s[i]
ParseMembers(s, i, acc) ==
    IF i > Len(s) THEN ParseFail
    ELSE IF s[i] \in MemberTokens
         THEN ParseMoreMembers(s, i + 1, Merge(acc, MemberFields(s[i])))
    ELSE IF s[i] = KEY
         THEN LET v == ParseValue(s, SkipWs(s, i + 1))
              IN  IF ~v.ok THEN ParseFail
                  ELSE ParseMoreMembers(s, v.pos, Merge(acc, KeyField(v.val)))
    ELSE ParseFail

\* what follows a member that ends just before s[i]: the end of the
\* object, or a comma and the next member
ParseMoreMembers(s, i, acc) ==
    LET j == SkipWs(s, i)
    IN  IF j > Len(s) THEN ParseFail
        ELSE IF s[j] = "}" THEN ParseOk(Obj(acc), j + 1)
        ELSE IF s[j] = "," THEN ParseMembers(s, SkipWs(s, j + 1), acc)
        ELSE ParseFail

\* the items of an array, the next one expected at s[i]
ParseItems(s, i, acc) ==
    LET v == ParseValue(s, i)
    IN  IF ~v.ok THEN ParseFail
        ELSE LET j == SkipWs(s, v.pos)
             IN  IF j > Len(s) THEN ParseFail
                 ELSE IF s[j] = "]" THEN ParseOk(Arr(Append(acc, v.val)), j + 1)
                 ELSE IF s[j] = "," THEN ParseItems(s, SkipWs(s, j + 1), Append(acc, v.val))
                 ELSE ParseFail

\* json.loads: one value, whitespace around it, nothing else
json_loads(s) ==
    LET v == ParseValue(s, SkipWs(s, 1))
    IN  IF v.ok /\ SkipWs(s, v.pos) > Len(s)
        THEN [ok |-> TRUE, val |-> v.val]
        ELSE [ok |-> FALSE, val |-> NoValue]

(***************************************************************************)
(* String helpers of extract_json_from_text.                               *)
(***************************************************************************)
RECURSIVE LStrip(_)
LStrip(s) == IF Len(s) > 0 /\ Head(s) = WS THEN LStrip(Tail(s)) ELSE s

RECURSIVE RStrip(_)
RStrip(s) == IF Len(s) > 0 /\ s[Len(s)] = WS THEN RStrip(SubSeq(s, 1, Len(s) - 1)) ELSE s

\* str.strip()
Strip(s) == RStrip(LStrip(s))

\* s.replace(FENCE + "json", "")
RECURSIVE RemoveFenceTag(_)
RemoveFenceTag(s) ==
    IF Len(s) = 0 THEN s
    ELSE IF Len(s) >= 2 /\ s[1] = FENCE /\ s[2] = TAG
         THEN RemoveFenceTag(SubSeq(s, 3, Len(s)))
         ELSE <<Head(s)>> \o RemoveFenceTag(Tail(s))

\* s.replace(FENCE, "")
RemoveFence(s) == SelectSeq(s, LAMBDA c : c # FENCE)

\* rfind used where find is meant: the last occurrence
Find_last(s, c) ==
    IF \E i \in 1..Len(s) : s[i] = c
    THEN CHOOSE i \in 1..Len(s) : s[i] = c /\ \A j \in (i + 1)..Len(s) : s[j] # c
    ELSE 0

\* s.find(c), 1-based; 0 when c does not occur (where Python gives -1)
Find(s, c) ==
    IF \E i \in 1..Len(s) : s[i] = c
    THEN CHOOSE i \in 1..Len(s) : s[i] = c /\ \A j \in 1..(i - 1) : s[j] # c
    ELSE 0

\* s.rfind(c), 1-based; 0 when c does not occur
RFind(s, c) ==
    IF \E i \in 1..Len(s) : s[i] = c
    THEN CHOOSE i \in 1..Len(s) : s[i] = c /\ \A j \in (i + 1)..Len(s) : s[j] # c
    ELSE 0

Raised(e) == [status |-> "raise", error |-> e, val |-> NoValue]
Returned(v) == [status |-> "return", error |-> "", val |-> v]

\* the text after the fence handling of lines 48-51
Cleaned(text) ==
    LET stripped == Strip(text)
    IN  IF Len(stripped) > 0 /\ stripped[1] = FENCE
        THEN Strip(RemoveFence(RemoveFenceTag(stripped)))
        ELSE stripped

extract_json_from_text(text) ==
    IF Len(text) = 0 THEN Raised("ValueError: Empty AI response")
    ELSE LET cleaned == Cleaned(text)
             whole == json_loads(cleaned)
         IN  IF whole.ok THEN Returned(whole.val)
             ELSE LET start == Find(cleaned, "{")
                      end == RFind(cleaned, "}")
                  IN  IF start # 0 /\ end # 0
                      THEN LET part == json_loads(SubSeq(cleaned, start, end))
                           IN  IF part.ok THEN Returned(part.val)
                               ELSE Raised("JSONDecodeError")
                      ELSE Raised("ValueError: Could not extract valid JSON")


(***************************************************************************)
(* Structured extractor and normalisation.                                 *)
(***************************************************************************)
\* the record extract_lead_data returns when salvage raises
Fallback ==
    [k \in AllKeys |->
        CASE k = "intent" -> "sales"
          [] k = "service_interest" -> "Website redesign"
          [] k = "budget_range" -> "unknown"
          [] k = "timeline" -> "unknown"
          [] k = "urgency_level" -> "medium"
          [] k = "lead_score" -> "50"
          [] k = "lead_temperature" -> "warm"
          [] k = "ai_summary" -> "Lead captured but details incomplete."
          [] k = "suggested_action" -> "Review manually"
          [] OTHER -> Absent]

\* the try/except of extract_lead_data, given the text the backend returned
extract_lead_data(content) ==
    LET salvaged == extract_json_from_text(content)
    IN  IF salvaged.status = "return" THEN salvaged.val ELSE Obj(Fallback)

\* chat(): "Ensure extracted is always a dict"
Normalize(v) ==
    LET first == IF v.t = "arr"
                 THEN (IF Len(v.items) > 0 THEN v.items[1] ELSE Obj(EmptyDict))
                 ELSE v
    IN  IF first.t = "obj" THEN first.fields ELSE EmptyDict

(***************************************************************************)
(* Contact detection.  A message content is a sequence of characters.      *)
(***************************************************************************)
MinPhoneLen == 7

Digits == {"0", "1", "2", "3", "4", "5", "6", "7", "8", "9"}

\* str.isdigit()
isdigit(s) == Len(s) > 0 /\ \A i \in 1..Len(s) : s[i] \in Digits

\* c in s
Contains(s, c) == \E i \in 1..Len(s) : s[i] = c

\* request.messages[-1].content.strip()
latest_user_message(msgs) == Strip(msgs[Len(msgs)].content)

\* the length bound is exclusive
is_phone_exclusiveBound(m) == isdigit(m) /\ Len(m) > MinPhoneLen

is_phone(m) == isdigit(m) /\ Len(m) >= MinPhoneLen

is_email(m) == Contains(m, "@") /\ Contains(m, ".")

(***************************************************************************)
(* Lead lifecycle.                                                         *)
(***************************************************************************)
\* Python None, for a lead_id and for an action
None == "<None>"

\* a uuid computed once, when the module is loaded
Uuid_mintedOnce(n) == "uuid-1"

\* str(uuid.uuid4()): the n-th identifier minted, distinct from all others
Uuid(n) == "uuid-" \o ToString(n)

\* Python truthiness of a lead_id: None and "" are false
Truthy(id) == id # None /\ id # ""

\* contact info creates a lead whether or not the caller holds one
Decide_createOnEveryContact(prior, phone, email, fresh) ==
    IF phone \/ email
    THEN [action |-> "saveLead", lead_id |-> fresh]
    ELSE IF Truthy(prior)
         THEN [action |-> "updateLead", lead_id |-> prior]
         ELSE [action |-> None, lead_id |-> prior]

\* lead_id starts as None and is set only in the branches that persist
Decide_dropsIdWithoutContact(prior, phone, email, fresh) ==
    IF ~Truthy(prior)
    THEN IF phone \/ email
         THEN [action |-> "saveLead", lead_id |-> fresh]
         ELSE [action |-> None, lead_id |-> None]
    ELSE IF phone \/ email
         THEN [action |-> "updateLead", lead_id |-> prior]
         ELSE [action |-> None, lead_id |-> None]

\* the update is gated by contact info like the creation
Decide_updateNeedsContact(prior, phone, email, fresh) ==
    IF phone \/ email
    THEN IF Truthy(prior)
         THEN [action |-> "updateLead", lead_id |-> prior]
         ELSE [action |-> "saveLead", lead_id |-> fresh]
    ELSE [action |-> None, lead_id |-> prior]

\* the creation is not gated by contact info
Decide_createsWithoutContact(prior, phone, email, fresh) ==
    IF ~Truthy(prior)
    THEN [action |-> "saveLead", lead_id |-> fresh]
    ELSE [action |-> "updateLead", lead_id |-> prior]

\* the creating call carries the tag of an update
Decide_createTaggedUpdate(prior, phone, email, fresh) ==
    IF ~Truthy(prior)
    THEN IF phone \/ email
         THEN [action |-> "updateLead", lead_id |-> fresh]
         ELSE [action |-> None, lead_id |-> prior]
    ELSE [action |-> "updateLead", lead_id |-> prior]

\* lines 314-324: the action and the lead_id to use, fresh being the uuid
\* that is minted if one is needed
Decide(prior, phone, email, fresh) ==
    IF ~Truthy(prior)
    THEN IF phone \/ email
         THEN [action |-> "saveLead", lead_id |-> fresh]
         ELSE [action |-> None, lead_id |-> prior]
    ELSE [action |-> "updateLead", lead_id |-> prior]

\* **extracted is written last in the dict literal, so that its
\* conversation_log, a value of the model, replaces the transcript
Payload_extractedLast(id, extracted_, updated) ==
    [created_at |-> IF extracted_["created_at"] # Absent
                    THEN extracted_["created_at"] ELSE "utcnow",
     lead_id |-> IF extracted_["lead_id"] # Absent
                 THEN extracted_["lead_id"] ELSE id,
     source |-> IF extracted_["source"] # Absent
                THEN extracted_["source"] ELSE "website-chatbot",
     fields |-> [k \in ExtractedLeadFields |-> extracted_[k]],
     conversation_log |-> IF extracted_["conversation_log"] # Absent
                          THEN <<extracted_["conversation_log"]>> ELSE updated]

\* lines 330-336: the dict literal, later keys replacing earlier ones
Payload(id, extracted_, updated) ==
    [created_at |-> IF extracted_["created_at"] # Absent
                    THEN extracted_["created_at"] ELSE "utcnow",
     lead_id |-> IF extracted_["lead_id"] # Absent
                 THEN extracted_["lead_id"] ELSE id,
     source |-> IF extracted_["source"] # Absent
                THEN extracted_["source"] ELSE "website-chatbot",
     fields |-> [k \in ExtractedLeadFields |-> extracted_[k]],
     conversation_log |-> updated]

NoPayload ==
    [created_at |-> "", lead_id |-> None, source |-> "",
     fields |-> [k \in ExtractedLeadFields |-> Absent],
     conversation_log |-> <<>>]

(***************************************************************************)
(* Inputs.                                                                 *)
(***************************************************************************)
Hi == <<"h", "i">>
Phone == <<"5", "5", "5", "1", "2", "3", "4">>
ShortDigits == <<"5", "5", "5", "1", "2", "3">>
Dashed == <<"5", "5", "5", "-", "1", "2", "3", "4">>
Email == <<"a", "@", "b", ".", "c">>
Padded == <<" ", "5", "5", "5", "1", "2", "3", "4", " ">>

User(c) == [role |-> "user", content |-> c]
Assistant(c) == [role |-> "assistant", content |-> c]

\* transcripts a caller of POST /chat may send
SampleTranscripts ==
    {<<>>, <<User(Hi)>>, <<User(Phone)>>, <<User(Email)>>, <<User(Dashed)>>,
     <<User(ShortDigits)>>, <<User(Padded)>>,
     <<User(Phone), Assistant(Hi)>>, <<User(Hi), Assistant(Email)>>}

\* what a visitor types into the widget (never blank, line 235)
UserTexts == {Hi, Phone, Email}

\* what the reply generator answers
Replies == {<<"o", "k">>}

\* what the extraction backend answers
BackendOutputs ==
    {<<>>, <<"x">>, <<"1">>, <<"[", "]">>,
     <<"{", "F", "}">>, <<"{", "P", "}">>, <<"{", "F", ",", "O", "}">>,
     <<"[", "{", "P", "}", "]">>,
     <<FENCE, TAG, "{", "F", "}", FENCE>>,
     <<"x", "{", "F", "}", "x">>}

\* how requests.post ends: a response, an exception, the 10 s timeout
GatewayOutcomes == {"ok", "error", "timeout"}

(***************************************************************************)
(* State.                                                                  *)
(***************************************************************************)
VARIABLES
    pc,         \* per handler: idle, reply, extract, post, done, failed
    rid,        \* per handler: the number of the request it serves
    request,    \* per handler: the ChatRequest (messages, lead_id)
    ai_reply,   \* per handler: chat's local ai_reply
    extracted,  \* per handler: chat's local extracted, after normalisation
    lead_id,    \* per handler: chat's local lead_id
    action,     \* per handler: chat's local action
    payload,    \* per handler: the payload posted to the gateway
    posted,     \* per handler: how its requests.post ended, None if not made
    response,   \* per handler: what the request returned, or how it failed
    calls,      \* the gateway calls made so far, in order: the request, the
                \* action, the lead_id of the payload, the lead_id the
                \* lifecycle decided, whether the store received the call
    uuids,      \* uuids[n] is the request that minted Uuid(n)
    received,   \* number of requests received so far
    messages,   \* widget: its transcript
    leadId,     \* widget: the lead id it holds
    returned,   \* widget: the lead ids of the responses it has processed
    turns,      \* widget: number of messages the visitor has sent
    text,       \* salvage parser: its argument
    result,     \* salvage parser: its outcome
    normalized, \* the extractor result after the normalisation of chat()
    utterance,  \* contact detector: the content of the latest message
    detected    \* contact detector: its flags and what the lifecycle does

handlerVars == <<pc, rid, request, ai_reply, extracted, lead_id, action, payload,
                 posted, response, calls, uuids, received>>
widgetVars == <<messages, leadId, returned, turns>>
salvageVars == <<text, result, normalized>>
detectVars == <<utterance, detected>>
vars == <<handlerVars, widgetVars, salvageVars, detectVars>>

\* two handlers can run at once (the server runs sync handlers in a thread pool)
Slots == {1, 2}

NoResponse == [status |-> "none", reply |-> <<>>, lead_id |-> None, error |-> ""]
Pending == [status |-> "pending", error |-> "", val |-> NoValue]

InitHandlers ==
    /\ pc = [r \in Slots |-> "idle"]
    /\ rid = [r \in Slots |-> 0]
    /\ request = [r \in Slots |-> [messages |-> <<>>, lead_id |-> None]]
    /\ ai_reply = [r \in Slots |-> <<>>]
    /\ extracted = [r \in Slots |-> EmptyDict]
    /\ lead_id = [r \in Slots |-> None]
    /\ action = [r \in Slots |-> None]
    /\ payload = [r \in Slots |-> NoPayload]
    /\ posted = [r \in Slots |-> None]
    /\ response = [r \in Slots |-> NoResponse]
    /\ calls = <<>>
    /\ uuids = <<>>
    /\ received = 0

InitWidget ==
    /\ messages = <<>>
    /\ leadId = None
    /\ returned = <<>>
    /\ turns = 0

NotDetected ==
    [status |-> "pending", is_phone |-> FALSE, is_email |-> FALSE,
     action |-> None, lead_id |-> None]

InitPure ==
    /\ text = <<>>
    /\ result = Pending
    /\ normalized = EmptyDict
    /\ utterance = <<>>
    /\ detected = NotDetected

Init == InitHandlers /\ InitWidget /\ InitPure

(***************************************************************************)
(* The /chat handler, one action per blocking call.                        *)
(***************************************************************************)
\* request.messages + [Message(role="assistant", content=ai_reply)]
updated_messages(r) == Append(request[r].messages, Assistant(ai_reply[r]))

\* a request arrives at handler r
Start(r, msgs, lid) ==
    /\ pc' = [pc EXCEPT ![r] = "reply"]
    /\ received' = received + 1
    /\ rid' = [rid EXCEPT ![r] = received + 1]
    /\ request' = [request EXCEPT ![r] = [messages |-> msgs, lead_id |-> lid]]
    /\ ai_reply' = [ai_reply EXCEPT ![r] = <<>>]
    /\ extracted' = [extracted EXCEPT ![r] = EmptyDict]
    /\ lead_id' = [lead_id EXCEPT ![r] = None]
    /\ action' = [action EXCEPT ![r] = None]
    /\ payload' = [payload EXCEPT ![r] = NoPayload]
    /\ posted' = [posted EXCEPT ![r] = None]
    /\ response' = [response EXCEPT ![r] = NoResponse]
    /\ UNCHANGED <<calls, uuids>>

\* an exception leaves chat(): the request fails as a whole
Fails(r, e) ==
    /\ pc' = [pc EXCEPT ![r] = "failed"]
    /\ response' = [response EXCEPT ![r] =
           [status |-> "error", reply |-> <<>>, lead_id |-> None, error |-> e]]

\* line 348: return {"reply": ai_reply, "lead_id": lead_id}
Returns(r, id) ==
    /\ pc' = [pc EXCEPT ![r] = "done"]
    /\ response' = [response EXCEPT ![r] =
           [status |-> "ok", reply |-> ai_reply[r], lead_id |-> id, error |-> ""]]

\* line 287: request.messages[-1] of an empty list
LastMessageMissing(r) ==
    /\ pc[r] = "reply"
    /\ request[r].messages = <<>>
    /\ Fails(r, "IndexError")
    /\ UNCHANGED <<rid, request, ai_reply, extracted, lead_id, action, payload,
                   posted, calls, uuids, received, widgetVars, salvageVars, detectVars>>

\* the lifecycle and the persistence call run before the reply is generated
ReplyFails_afterPersisting(r) ==
    /\ pc[r] = "reply"
    /\ request[r].messages # <<>>
    /\ LET m == latest_user_message(request[r].messages)
           d == Decide(request[r].lead_id, is_phone(m), is_email(m),
                       Uuid(Len(uuids) + 1))
       IN  /\ uuids' = IF d.action = "saveLead" THEN Append(uuids, rid[r]) ELSE uuids
           /\ calls' = IF d.action # None
                       THEN Append(calls, [rid |-> rid[r], action |-> d.action,
                                           lead_id |-> d.lead_id,
                                           decided |-> d.lead_id,
                                           delivered |-> TRUE])
                       ELSE calls
    /\ Fails(r, "reply generator")
    /\ UNCHANGED <<rid, request, ai_reply, extracted, lead_id, action, payload,
                   posted, received, widgetVars, salvageVars, detectVars>>

\* line 289: the reply generator raises
ReplyFails(r) ==
    /\ pc[r] = "reply"
    /\ request[r].messages # <<>>
    /\ Fails(r, "reply generator")
    /\ UNCHANGED <<rid, request, ai_reply, extracted, lead_id, action, payload,
                   posted, calls, uuids, received, widgetVars, salvageVars, detectVars>>

\* line 289: the reply generator answers
ReplyReturns(r, reply) ==
    /\ pc[r] = "reply"
    /\ request[r].messages # <<>>
    /\ ai_reply' = [ai_reply EXCEPT ![r] = reply]
    /\ pc' = [pc EXCEPT ![r] = "extract"]
    /\ UNCHANGED <<rid, request, extracted, lead_id, action, payload, posted,
                   response, calls, uuids, received, widgetVars, salvageVars, detectVars>>

\* line 140: the extraction backend call raises, outside the try of line 149
ExtractFails(r) ==
    /\ pc[r] = "extract"
    /\ Fails(r, "extraction backend")
    /\ UNCHANGED <<rid, request, ai_reply, extracted, lead_id, action, payload,
                   posted, calls, uuids, received, widgetVars, salvageVars, detectVars>>

\* lines 140-336: the extraction backend answers content; salvage,
\* normalisation, contact detection, lifecycle decision, payload
ExtractReturns(r, content) ==
    /\ pc[r] = "extract"
    /\ LET ex == Normalize(extract_lead_data(content))
           m == latest_user_message(request[r].messages)
           d == Decide(request[r].lead_id, is_phone(m), is_email(m),
                       Uuid(Len(uuids) + 1))
       IN  /\ extracted' = [extracted EXCEPT ![r] = ex]
           /\ lead_id' = [lead_id EXCEPT ![r] = d.lead_id]
           /\ action' = [action EXCEPT ![r] = d.action]
           /\ uuids' = IF d.action = "saveLead" THEN Append(uuids, rid[r]) ELSE uuids
           /\ IF d.action # None
              THEN /\ payload' = [payload EXCEPT ![r] =
                          Payload(d.lead_id, ex, updated_messages(r))]
                   /\ pc' = [pc EXCEPT ![r] = "post"]
                   /\ UNCHANGED response
              ELSE /\ Returns(r, d.lead_id)
                   /\ UNCHANGED payload
    /\ UNCHANGED <<rid, request, ai_reply, posted, calls, received, widgetVars,
                   salvageVars, detectVars>>

\* a call that raised is made once more
PostReturns_retriesOnError(r, outcome, delivered) ==
    /\ pc[r] = "post"
    /\ outcome = "ok" => delivered
    /\ outcome = "error" => ~delivered
    /\ posted' = [posted EXCEPT ![r] = outcome]
    /\ LET call == [rid |-> rid[r], action |-> action[r],
                    lead_id |-> payload[r].lead_id, decided |-> lead_id[r],
                    delivered |-> delivered]
       IN  calls' = IF outcome = "error"
                    THEN Append(Append(calls, call), call)
                    ELSE Append(calls, call)
    /\ Returns(r, lead_id[r])
    /\ UNCHANGED <<rid, request, ai_reply, extracted, lead_id, action, payload,
                   uuids, received, widgetVars, salvageVars, detectVars>>

\* lines 338-351: requests.post ends one way or another, any exception is
\* passed over, and the response is returned
PostReturns(r, outcome, delivered) ==
    /\ pc[r] = "post"
    /\ outcome = "ok" => delivered
    /\ outcome = "error" => ~delivered
    /\ posted' = [posted EXCEPT ![r] = outcome]
    /\ calls' = Append(calls, [rid |-> rid[r], action |-> action[r],
                               lead_id |-> payload[r].lead_id,
                               decided |-> lead_id[r],
                               delivered |-> delivered])
    /\ Returns(r, lead_id[r])
    /\ UNCHANGED <<rid, request, ai_reply, extracted, lead_id, action, payload,
                   uuids, received, widgetVars, salvageVars, detectVars>>

\* the steps of handler r on a request that holds a message
Handle(r) ==
    \/ ReplyFails(r)
    \/ \E reply \in Replies : ReplyReturns(r, reply)
    \/ ExtractFails(r)
    \/ \E content \in BackendOutputs : ExtractReturns(r, content)
    \/ \E outcome \in GatewayOutcomes, delivered \in BOOLEAN :
           PostReturns(r, outcome, delivered)

(***************************************************************************)
(* Callers of POST /chat.                                                  *)
(***************************************************************************)
\* lead ids some caller may present: none, the empty string, one of its own
\* choosing, one the service minted
PresentedLeadIds ==
    {None, "", "caller-chosen"} \cup {Uuid(n) : n \in 1..Len(uuids)}

\* any caller sends any request
Receive(r, msgs, lid) ==
    /\ pc[r] \in {"idle", "done", "failed"}
    /\ received < MaxRequests
    /\ Start(r, msgs, lid)
    /\ UNCHANGED <<widgetVars, salvageVars, detectVars>>

\* widget, lines 234-252: the visitor presses Enter on a non-blank text
WidgetSend(r, txt) ==
    /\ pc[r] = "idle"
    /\ LET sent == Append(messages, User(txt))
       IN  /\ messages' = sent
           /\ Start(r, sent, leadId)
    /\ turns' = turns + 1
    /\ UNCHANGED <<leadId, returned, salvageVars, detectVars>>

\* the same, by a visitor who waits for each answer before sending again
WidgetSendSerial(txt) ==
    /\ turns < MaxTurns
    /\ \A s \in Slots : pc[s] = "idle"
    /\ WidgetSend(1, txt)

\* the same, by a visitor who may send again before the answer has arrived
WidgetSendAgain(r, txt) ==
    /\ received < MaxRequests
    /\ WidgetSend(r, txt)

\* the keypress handler that awaited handler r is over: its frame is gone
Forget(r) ==
    /\ pc' = [pc EXCEPT ![r] = "idle"]
    /\ rid' = [rid EXCEPT ![r] = 0]
    /\ request' = [request EXCEPT ![r] = [messages |-> <<>>, lead_id |-> None]]
    /\ ai_reply' = [ai_reply EXCEPT ![r] = <<>>]
    /\ extracted' = [extracted EXCEPT ![r] = EmptyDict]
    /\ lead_id' = [lead_id EXCEPT ![r] = None]
    /\ action' = [action EXCEPT ![r] = None]
    /\ payload' = [payload EXCEPT ![r] = NoPayload]
    /\ posted' = [posted EXCEPT ![r] = None]
    /\ response' = [response EXCEPT ![r] = NoResponse]

\* widget, lines 254-265: the response arrives
WidgetReceives(r) ==
    /\ pc[r] = "done"
    /\ leadId' = response[r].lead_id
    /\ returned' = Append(returned, response[r].lead_id)
    /\ messages' = Append(messages, Assistant(response[r].reply))
    /\ Forget(r)
    /\ UNCHANGED <<calls, uuids, received, turns, salvageVars, detectVars>>

\* widget, lines 244-254: the request failed, so fetch or response.json()
\* rejects and the rest of the keypress handler does not run
WidgetFetchFails(r) ==
    /\ pc[r] = "failed"
    /\ Forget(r)
    /\ UNCHANGED <<calls, uuids, received, widgetVars, salvageVars, detectVars>>

(***************************************************************************)
(* Specifications.                                                         *)
(***************************************************************************)
\* one handler serving arbitrary requests, one after the other
Next ==
    \/ \E msgs \in SampleTranscripts, lid \in PresentedLeadIds : Receive(1, msgs, lid)
    \/ LastMessageMissing(1)
    \/ Handle(1)

Spec == Init /\ [][Next]_vars

\* the widget of one visitor who waits for each answer
NextSession ==
    \/ \E txt \in UserTexts : WidgetSendSerial(txt)
    \/ Handle(1)
    \/ WidgetReceives(1)
    \/ WidgetFetchFails(1)

SpecSession == Init /\ [][NextSession]_vars

\* the widget of one visitor who may send again before the answer arrives
NextConcurrent ==
    \E r \in Slots :
        \/ \E txt \in UserTexts : WidgetSendAgain(r, txt)
        \/ Handle(r)
        \/ WidgetReceives(r)
        \/ WidgetFetchFails(r)

SpecConcurrent == Init /\ [][NextConcurrent]_vars

\* the salvage parser applied to every text up to MaxTextLen tokens
RECURSIVE TextsUpTo(_)
TextsUpTo(n) ==
    IF n = 0 THEN {<<>>}
    ELSE LET shorter == TextsUpTo(n - 1)
         IN  shorter \cup {Append(s, c) : s \in {t \in shorter : Len(t) = n - 1},
                                           c \in Alphabet}

InitSalvage ==
    /\ InitHandlers
    /\ InitWidget
    /\ text \in TextsUpTo(MaxTextLen)
    /\ result = Pending
    /\ normalized = EmptyDict
    /\ utterance = <<>>
    /\ detected = NotDetected

Salvage ==
    /\ result = Pending
    /\ result' = extract_json_from_text(text)
    /\ UNCHANGED <<text, normalized, handlerVars, widgetVars, detectVars>>

NextSalvage == Salvage

SpecSalvage == InitSalvage /\ [][NextSalvage]_vars

\* the structured extractor and the normalisation of chat() applied to every
\* backend text up to MaxTextLen tokens and to the sample backend outputs
InitExtract ==
    /\ InitHandlers
    /\ InitWidget
    /\ text \in TextsUpTo(MaxTextLen) \cup BackendOutputs
    /\ result = Pending
    /\ normalized = EmptyDict
    /\ utterance = <<>>
    /\ detected = NotDetected

\* lines 149-162 and 298-305: result is what extract_lead_data returns,
\* normalized is chat's extracted after the two isinstance tests
Extract ==
    /\ result = Pending
    /\ result' = Returned(extract_lead_data(text))
    /\ normalized' = Normalize(extract_lead_data(text))
    /\ UNCHANGED <<text, handlerVars, widgetVars, detectVars>>

NextExtract == Extract

SpecExtract == InitExtract /\ [][NextExtract]_vars

\* the contact detector and the lifecycle decision applied to every message
\* content of up to MaxMessageLen characters, and to the number with
\* separators, sent as the only message of a request with no lead_id
MessageAlphabet == {"5", "-", "@", ".", " "}

Separated == <<"5", "5", "5", "-", "1", "2", "3", "-", "4", "5", "6", "7">>

RECURSIVE MessagesUpTo(_)
MessagesUpTo(n) ==
    IF n = 0 THEN {<<>>}
    ELSE LET shorter == MessagesUpTo(n - 1)
         IN  shorter \cup {Append(s, c) : s \in {t \in shorter : Len(t) = n - 1},
                                           c \in MessageAlphabet}

InitDetect ==
    /\ InitHandlers
    /\ InitWidget
    /\ text = <<>>
    /\ result = Pending
    /\ normalized = EmptyDict
    /\ utterance \in MessagesUpTo(MaxMessageLen) \cup {Separated, Padded}
    /\ detected = NotDetected

\* lines 308-324 on a request that holds utterance as its only message and
\* no lead_id
Detect ==
    /\ detected.status = "pending"
    /\ LET m == latest_user_message(<<User(utterance)>>)
           d == Decide(None, is_phone(m), is_email(m), Uuid(1))
       IN  detected' = [status |-> "done", is_phone |-> is_phone(m),
                        is_email |-> is_email(m), action |-> d.action,
                        lead_id |-> d.lead_id]
    /\ UNCHANGED <<utterance, handlerVars, widgetVars, salvageVars>>

NextDetect == Detect

SpecDetect == InitDetect /\ [][NextDetect]_vars

\* the salvage parser applied to fenced blocks with a json tag: the opening
\* fence and the tag, the content, the closing fence, with or without line
\* breaks around the content
ContentAlphabet == {"{", "}", KEY, QUOTE, FENCE, "x"}

RECURSIVE ContentsUpTo(_)
ContentsUpTo(n) ==
    IF n = 0 THEN {<<>>}
    ELSE LET shorter == ContentsUpTo(n - 1)
         IN  shorter \cup {Append(s, c) : s \in {t \in shorter : Len(t) = n - 1},
                                           c \in ContentAlphabet}

Fenced(c, br) == <<FENCE, TAG>> \o br \o c \o br \o <<FENCE>>

InitFenced ==
    /\ InitHandlers
    /\ InitWidget
    /\ \E c \in ContentsUpTo(MaxContentLen), br \in {<<>>, <<WS>>} :
           text = Fenced(c, br)
    /\ result = Pending
    /\ normalized = EmptyDict
    /\ utterance = <<>>
    /\ detected = NotDetected

SpecFenced == InitFenced /\ [][NextSalvage]_vars

\* the salvage parser applied to one JSON object with prose before and
\* after it
ProseAlphabet == {"x", WS, "{", "}", "[", "]", FENCE}

RECURSIVE ProseUpTo(_)
ProseUpTo(n) ==
    IF n = 0 THEN {<<>>}
    ELSE LET shorter == ProseUpTo(n - 1)
         IN  shorter \cup {Append(s, c) : s \in {t \in shorter : Len(t) = n - 1},
                                           c \in ProseAlphabet}

SampleObjects ==
    {<<"{", "P", "}">>,
     <<"{", KEY, QUOTE, "{", QUOTE, "}">>, <<"{", KEY, QUOTE, "}", QUOTE, "}">>,
     <<"{", KEY, QUOTE, FENCE, QUOTE, "}">>}

InitProse ==
    /\ InitHandlers
    /\ InitWidget
    /\ \E lead \in ProseUpTo(MaxProseLen), obj \in SampleObjects,
          trail \in ProseUpTo(MaxProseLen) :
           text = lead \o obj \o trail
    /\ result = Pending
    /\ normalized = EmptyDict
    /\ utterance = <<>>
    /\ detected = NotDetected

SpecProse == InitProse /\ [][NextSalvage]_vars

(***************************************************************************)
(* Properties.                                                             *)
(***************************************************************************)
\* the gateway calls made for the request handler r serves
CallsOf(r) == {i \in 1..Len(calls) : calls[i].rid = rid[r]}

\* the request of handler r minted a lead id
MintedBy(r) == \E n \in 1..Len(uuids) : uuids[n] = rid[r]

\* the latest message of the request of handler r is a phone or an email
\* per the detector
HasContact(r) ==
    /\ request[r].messages # <<>>
    /\ LET m == latest_user_message(request[r].messages)
       IN  is_phone(m) \/ is_email(m)

\* handler r has taken its lifecycle decision
Decided(r) == pc[r] \in {"post", "done"}

SaveCalls == {i \in 1..Len(calls) : calls[i].action = "saveLead"}

\* C1: in a session of serialized turns whose caller presents the lead id
\* of the previous response, at most one lead id is minted and at most one
\* saveLead call is issued, and every gateway call after the saveLead is an
\* updateLead.
C1_AtMostOneCreate ==
    /\ Len(uuids) <= 1
    /\ Cardinality(SaveCalls) <= 1
    /\ \A i, j \in 1..Len(calls) :
           (i < j /\ calls[i].action = "saveLead") => calls[j].action = "updateLead"

\* a turn that carries contact info after the lead was created was persisted
\* as an update
C1_Witness ==
    /\ Len(calls) >= 2
    /\ calls[1].action = "saveLead"
    /\ pc[1] = "done"
    /\ HasContact(1)
    /\ calls[Len(calls)].rid = rid[1]
    /\ calls[Len(calls)].action = "updateLead"

\* C2: once a request of the session has created identifier X, every later
\* request that presents X decides update with lead id X and returns X;
\* the lead ids returned to the session never change once non-null and
\* never go back to null.
C2_LifecycleMonotonic ==
    /\ \A i, j \in 1..Len(returned) :
           (i < j /\ returned[i] # None) => returned[j] = returned[i]
    /\ returned # <<>> => leadId = returned[Len(returned)]
    /\ \A r \in Slots :
           (Decided(r) /\ \E n \in 1..Len(uuids) : request[r].lead_id = Uuid(n)) =>
               /\ action[r] = "updateLead"
               /\ lead_id[r] = request[r].lead_id
               /\ pc[r] = "done" => /\ response[r].status = "ok"
                                    /\ response[r].lead_id = request[r].lead_id

\* the created identifier came back on two later turns, the last of them
\* without contact info
C2_Witness ==
    /\ Len(returned) >= 2
    /\ returned[1] # None
    /\ returned[2] = returned[1]
    /\ pc[1] = "done"
    /\ ~HasContact(1)
    /\ response[1].lead_id = returned[1]

\* C3: every request that presents a lead id decides update with exactly
\* that lead id, issues exactly one gateway call, an updateLead, and echoes
\* the lead id back, whatever its latest message and its extracted record.
C3_StateBUnconditional ==
    \A r \in Slots :
        (Decided(r) /\ Truthy(request[r].lead_id)) =>
            /\ action[r] = "updateLead"
            /\ lead_id[r] = request[r].lead_id
            /\ ~MintedBy(r)
            /\ pc[r] = "post" => CallsOf(r) = {}
            /\ pc[r] = "done" =>
                   /\ response[r].status = "ok"
                   /\ response[r].lead_id = request[r].lead_id
                   /\ posted[r] # None
                   /\ Cardinality(CallsOf(r)) = 1
                   /\ \A i \in CallsOf(r) : calls[i].action = "updateLead"

\* a request that presented a lead id, with no contact info in its latest
\* message and an empty extracted record, was persisted as an update
C3_Witness ==
    /\ pc[1] = "done"
    /\ Truthy(request[1].lead_id)
    /\ ~HasContact(1)
    /\ extracted[1] = EmptyDict
    /\ \E i \in CallsOf(1) : calls[i].action = "updateLead"

\* C4: a request with no prior lead id whose latest message is neither a
\* phone nor an email decides no action, mints nothing, makes no gateway
\* call, and its response carries lead_id null, for any extracted record.
C4_NoContactNoAction ==
    \A r \in Slots :
        (pc[r] # "idle" /\ request[r].lead_id = None
         /\ request[r].messages # <<>> /\ ~HasContact(r)) =>
            /\ action[r] = None
            /\ lead_id[r] = None
            /\ ~MintedBy(r)
            /\ CallsOf(r) = {}
            /\ posted[r] = None
            /\ pc[r] # "post"
            /\ pc[r] = "done" => /\ response[r].status = "ok"
                                 /\ response[r].lead_id = None

\* a request without lead id whose latest message is a phone number written
\* with a dash completed with a full extracted record
C4_Witness ==
    /\ pc[1] = "done"
    /\ request[1].lead_id = None
    /\ request[1].messages = <<User(Dashed)>>
    /\ Keys(extracted[1]) = ExtractedLeadFields
    /\ response[1].lead_id = None

\* C5: the record handed to the lifecycle and persistence step holds a
\* value for every field of the fallback record at least, for any backend
\* output.
C5_ExtractedTotal ==
    \A r \in Slots : Decided(r) => Keys(Fallback) \subseteq Keys(extracted[r])

\* C6: when the extraction backend call fails, the extracted record is the
\* fallback record and the request does not fail.
C6_ExtractorNeverFailsOutward ==
    \A r \in Slots :
        response[r].error = "extraction backend" =>
            /\ pc[r] # "failed"
            /\ extracted[r] = Fallback

\* the two handlers serve requests of one session that both presented no
\* lead id and both carry contact info, and both have decided
BothDecidedOnContact(r1, r2) ==
    /\ r1 # r2
    /\ Decided(r1) /\ Decided(r2)
    /\ request[r1].lead_id = None /\ request[r2].lead_id = None
    /\ HasContact(r1) /\ HasContact(r2)

\* C7: two requests of one session that run concurrently, both presenting
\* no lead id and both with contact info, each mint a lead id of their own
\* and each issue a saveLead; neither sees what the other created.
C7_EachCreates ==
    \A r1, r2 \in Slots :
        BothDecidedOnContact(r1, r2) =>
            /\ action[r1] = "saveLead" /\ action[r2] = "saveLead"
            /\ Truthy(lead_id[r1]) /\ Truthy(lead_id[r2])
            /\ lead_id[r1] # lead_id[r2]
            /\ MintedBy(r1) /\ MintedBy(r2)
            /\ pc[r1] = "done" =>
                   /\ response[r1].lead_id = lead_id[r1]
                   /\ Cardinality(CallsOf(r1)) = 1
                   /\ \A i \in CallsOf(r1) : calls[i].action = "saveLead"

\* both requests of a double submit have returned, and the store was sent
\* two saveLead calls
C7_Witness ==
    /\ BothDecidedOnContact(1, 2)
    /\ pc[1] = "done" /\ pc[2] = "done"
    /\ Cardinality(SaveCalls) = 2

\* C8: whenever the reply generator has succeeded, the request ends with a
\* response that holds that reply and the lead id of the lifecycle
\* decision, whatever became of the gateway call.
C8_ReplyAlwaysReturned ==
    \A r \in Slots :
        (pc[r] \in {"done", "failed"} /\ ai_reply[r] # <<>>) =>
            /\ response[r].status = "ok"
            /\ response[r].reply = ai_reply[r]
            /\ response[r].lead_id = lead_id[r]

\* C9: a request whose reply generation failed has failed as a whole, with
\* no reply, no lead id minted and no gateway call.
C9_ReplyFailureAborts ==
    \A r \in Slots :
        response[r].error = "reply generator" =>
            /\ pc[r] = "failed"
            /\ response[r].status = "error"
            /\ response[r].reply = <<>>
            /\ ai_reply[r] = <<>>
            /\ action[r] = None
            /\ lead_id[r] = None
            /\ posted[r] = None
            /\ ~MintedBy(r)
            /\ CallsOf(r) = {}

\* the reply generator failed on a request that presents a minted lead id
\* and carries contact info
C9_Witness ==
    /\ pc[1] = "failed"
    /\ response[1].error = "reply generator"
    /\ request[1].lead_id = Uuid(1)
    /\ HasContact(1)
    /\ Len(calls) = 1

\* C10: salvage returns a JSON object or raises, for every text; it raises
\* on the empty text and on every text without a brace pair.
C10_ObjectOrError ==
    result # Pending =>
        /\ result.status = "return" => result.val.t = "obj"
        /\ text = <<>> => result.status = "raise"
        /\ (Find(text, "{") = 0 \/ Find(text, "}") = 0) => result.status = "raise"
\* what stands between the opening fence with its tag and the closing fence
Inner(t) == SubSeq(t, 3, Len(t) - 1)

\* C11: for every fenced block with a json tag around a content c that is a
\* JSON object, the salvage parser returns the object that parsing c
\* directly gives, also when c holds fence markers inside a string value.
C11_FencedSameAsDirect ==
    result.status # "pending" =>
        LET direct == json_loads(Inner(text))
        IN  (direct.ok /\ direct.val.t = "obj") => result = Returned(direct.val)

\* text t holds no brace pair, an opening one and later a closing one
NoObjectIn(t) == ~\E i, j \in 1..Len(t) : i < j /\ t[i] = "{" /\ t[j] = "}"

\* t[i..j] is a JSON object and the rest of t is prose around it
ObjectAt(t, i, j) ==
    /\ i <= j
    /\ SubSeq(t, i, j) \in SampleObjects
    /\ \A k \in (1..(i - 1)) \cup ((j + 1)..Len(t)) : t[k] \in ProseAlphabet

\* C12 as stated: for every text made of exactly one JSON object with
\* arbitrary prose before and after it, the salvage parser returns exactly
\* that object, also when the prose holds braces.
C12_ProseAnyBraces ==
    result.status # "pending" =>
        \A i, j \in 1..Len(text) :
            (/\ ObjectAt(text, i, j)
             /\ NoObjectIn(SubSeq(text, 1, i - 1))
             /\ NoObjectIn(SubSeq(text, j + 1, Len(text))))
            => result = Returned(json_loads(SubSeq(text, i, j)).val)

\* C12, amended: for every text made of one JSON object with prose before
\* and after it, the salvage parser returns exactly that object provided
\* the prose before it holds no opening brace, the prose after it holds no
\* closing brace, the text does not begin with a fence marker and the text
\* as a whole is not itself valid JSON.
C12_ProseSalvage ==
    result.status # "pending" =>
        \A i, j \in 1..Len(text) :
            (/\ ObjectAt(text, i, j)
             /\ \A k \in 1..(i - 1) : text[k] # "{"
             /\ \A k \in (j + 1)..Len(text) : text[k] # "}"
             /\ Strip(text)[1] # FENCE
             /\ \/ ~json_loads(text).ok
                \/ Strip(text) = SubSeq(text, i, j))
            => result = Returned(json_loads(SubSeq(text, i, j)).val)

\* an object between a closing brace and an opening brace is recovered
C12_Witness ==
    /\ text = <<"}", "x", "{", KEY, QUOTE, "}", QUOTE, "}", "x", "{">>
    /\ result = Returned(Obj(KeyField(Str(<<"}">>))))

\* C13: for every message text, is_phone holds iff the trimmed text is made
\* of digit characters only and is at least 7 long, and is_email holds iff
\* the trimmed text holds both an at sign and a dot; the number
\* 555-123-4567 gives is_phone false and, with no prior lead_id, creates
\* nothing.
C13_DetectionRules ==
    detected.status = "done" =>
        LET trimmed == Strip(utterance)
        IN  /\ detected.is_phone <=>
                   (/\ Len(trimmed) >= 7
                    /\ \A i \in 1..Len(trimmed) : trimmed[i] \in Digits)
            /\ detected.is_email <=>
                   (/\ \E i \in 1..Len(trimmed) : trimmed[i] = "@"
                    /\ \E i \in 1..Len(trimmed) : trimmed[i] = ".")
            /\ utterance = Separated =>
                   (/\ ~detected.is_phone
                    /\ detected.action = None
                    /\ detected.lead_id = None)

\* the number with separators has been judged: no phone, nothing created
C13_Witness ==
    /\ detected.status = "done"
    /\ utterance = Separated
    /\ ~detected.is_phone
    /\ detected.action = None

\* C14: when the extractor result is a sequence of records its first record
\* is used as the extracted record; when the sequence is empty, or the
\* result is not an object at all, the fallback record is used.
C14_NormalizedOrFallback ==
    result.status = "return" =>
        LET raw == result.val
        IN  /\ (raw.t = "arr" /\ Len(raw.items) > 0 /\ raw.items[1].t = "obj")
                   => normalized = raw.items[1].fields
            /\ (raw.t = "arr" /\ Len(raw.items) = 0) => normalized = Fallback
            /\ raw.t \notin {"arr", "obj"} => normalized = Fallback

\* the calls before the i-th that carry the tag a for lead id x
Earlier(i, a, x) == {j \in 1..(i - 1) : calls[j].action = a /\ calls[j].decided = x}

\* C15 as stated: no updateLead for a lead id reaches the store before a
\* saveLead for that lead id has been delivered, also when the saveLead
\* attempt of the creating request fails or times out.
C15_UpdateAfterDeliveredSave ==
    \A i \in 1..Len(calls) :
        (calls[i].action = "updateLead" /\ calls[i].delivered)
        => \E j \in Earlier(i, "saveLead", calls[i].decided) : calls[j].delivered

\* C15, amended: for every lead id the service minted, exactly one saveLead
\* is attempted, by the request that minted it, and every updateLead for
\* that lead id is attempted after that attempt has ended, whether or not
\* the store received it.
C15_UpdateAfterSaveAttempt ==
    /\ \A i \in 1..Len(calls) :
           calls[i].action = "updateLead"
           => Earlier(i, "saveLead", calls[i].decided) # {}
    /\ \A i \in 1..Len(calls) :
           calls[i].action = "saveLead"
           => /\ Earlier(i, "saveLead", calls[i].decided) = {}
              /\ \E n \in 1..Len(uuids) :
                     calls[i].decided = Uuid(n) /\ uuids[n] = calls[i].rid

\* a saveLead the store never received, then an updateLead for the same
\* lead id that the store did receive
C15_Witness ==
    \E i, j \in 1..Len(calls) :
        /\ i < j
        /\ calls[i].action = "saveLead" /\ ~calls[i].delivered
        /\ calls[j].action = "updateLead" /\ calls[j].delivered
        /\ calls[j].decided = calls[i].decided

\* the tags of the gateway calls made for the request handler r serves
TagsOf(r) == {calls[i].action : i \in CallsOf(r)}

\* C16: each request makes at most one gateway attempt and never retries
\* it, even when the attempt fails; the attempt is tagged saveLead exactly
\* when the request has no prior lead_id and holds contact info, a freshly
\* minted lead_id being returned, and updateLead exactly when the request
\* presents a lead_id.
C16_OneAttemptRightTag ==
    \A r \in Slots :
        /\ rid[r] # 0 => Cardinality(CallsOf(r)) <= 1
        /\ pc[r] = "done" =>
               LET create == ~Truthy(request[r].lead_id) /\ HasContact(r)
                   update == Truthy(request[r].lead_id)
               IN  /\ "saveLead" \in TagsOf(r) <=> create
                   /\ "updateLead" \in TagsOf(r) <=> update
                   /\ (create \/ update) <=> Cardinality(CallsOf(r)) = 1
                   /\ create =>
                          \E n \in 1..Len(uuids) :
                              /\ uuids[n] = rid[r]
                              /\ response[r].lead_id = Uuid(n)
                              /\ \A m \in 1..Len(uuids) : Uuid(m) = Uuid(n) => m = n

\* a create whose only attempt raised: one saveLead call, not received, and
\* the minted lead id returned
C16_Witness ==
    /\ pc[1] = "done"
    /\ posted[1] = "error"
    /\ ~Truthy(request[1].lead_id)
    /\ \E i \in 1..Len(calls) :
           /\ CallsOf(1) = {i}
           /\ calls[i].action = "saveLead"
           /\ ~calls[i].delivered
           /\ response[1].lead_id = calls[i].decided

\* handler r has built the payload of a gateway call
Persisting(r) == pc[r] \in {"post", "done"} /\ action[r] # None

\* C17: in every persisted payload conversation_log is the transcript of
\* the request followed by the reply just generated as its last message,
\* whatever keys the extracted record holds.
C17_LogIsTranscriptPlusReply ==
    \A r \in Slots :
        Persisting(r) =>
            /\ payload[r].conversation_log =
                   request[r].messages \o <<[role |-> "assistant", content |-> ai_reply[r]]>>
            /\ pc[r] = "done" => response[r].reply = ai_reply[r]

\* a payload built from an extracted record that holds a conversation_log
\* key of its own
C17_Witness ==
    /\ Persisting(1)
    /\ extracted[1]["conversation_log"] # Absent
    /\ Len(payload[1].conversation_log) = Len(request[1].messages) + 1

\* the content of the latest message of msgs that has the user role
RECURSIVE LatestOfUser(_)
LatestOfUser(msgs) ==
    IF Len(msgs) = 0 THEN <<>>
    ELSE IF msgs[Len(msgs)].role = "user" THEN msgs[Len(msgs)].content
    ELSE LatestOfUser(SubSeq(msgs, 1, Len(msgs) - 1))

\* C18: contact detection is computed on the latest user utterance: a
\* request with no lead_id creates a lead exactly when its latest message
\* of the user role is a phone or an email, whatever the role of the
\* message that is last in the list.
C18_JudgedByLatestUserMessage ==
    \A r \in Slots :
        (Decided(r) /\ ~Truthy(request[r].lead_id)) =>
            LET m == Strip(LatestOfUser(request[r].messages))
            IN  action[r] = "saveLead" <=> (is_phone(m) \/ is_email(m))

\* C19: in every gateway call the lead_id of the payload is the lead_id
\* the lifecycle decided, which the response returns, and its source is
\* website-chatbot, whatever keys the extracted record holds.
C19_PayloadIdentity ==
    \A r \in Slots :
        Persisting(r) =>
            /\ payload[r].lead_id = lead_id[r]
            /\ payload[r].source = "website-chatbot"
            /\ pc[r] = "done" => payload[r].lead_id = response[r].lead_id

====
